---- MODULE Spec2Model ----
(***************************************************************************)
(* The account ledger canister of src/dfinity_js_backend/src/index.ts      *)
(* (the canister exported at lines 406-621): users with a balance and a    *)
(* loyalty point counter, deposits, transfers, point redemption, and the   *)
(* read-only queries, over two stable maps.                                *)
(*                                                                         *)
(* Text values are sequences of one-character strings, so that trimming,   *)
(* lower-casing and the regular expressions act on characters.  Each map   *)
(* reads and writes the stable memory region of its memory id.  nat64 is   *)
(* scaled down to Nat64Bits bits.  A value that a nat64 field cannot hold  *)
(* makes the Candid encoder of StableBTreeMap.insert throw: the call traps *)
(* and the canister's state is rolled back to what it was before the call. *)
(***************************************************************************)
EXTENDS Integers, Sequences, FiniteSets, TLC

VARIABLES
    userStorage,         \* StableBTreeMap(0, text, User): id -> User
    transactionStorage,  \* StableBTreeMap(1, text, Transaction): id -> Transaction
    now,                 \* the clock read by getCurrentTimestamp
    last,                \* the call being answered: its name, payload and result
    okCalls,             \* history: deposits, transfers and redemptions that returned Ok
    exec                 \* the update message in execution, insert by insert

vars == <<userStorage, transactionStorage, now, last, okCalls, exec>>

stores == <<userStorage, transactionStorage>>

-----------------------------------------------------------------------------
(* Bounds of the model *)

MaxUsers == 2

MaxTx == 2

MaxTime == 1

Nat64Bits == 7

(* Program constants *)

POINTS_CONVERSION_RATE == 10

MIN_TRANSACTION_AMOUNT == 1

SYSTEM == "SYSTEM"

Nat64Max == 2 ^ Nat64Bits - 1

-----------------------------------------------------------------------------
(* Text helpers *)

Min(a, b) == IF a < b THEN a ELSE b

IsSpace(c) == c = " "

IsDigit(c) == c \in {"0", "1", "2", "3", "4", "5", "6", "7", "8", "9"}

LowerChar(c) ==
    CASE c = "A" -> "a"
      [] c = "B" -> "b"
      [] c = "L" -> "l"
      [] OTHER -> c

toLowerCase(s) == [i \in 1..Len(s) |-> LowerChar(s[i])]

RECURSIVE trimStart(_)
trimStart(s) ==
    IF s = <<>> THEN <<>>
    ELSE IF IsSpace(Head(s)) THEN trimStart(Tail(s)) ELSE s

RECURSIVE trimEnd(_)
trimEnd(s) ==
    IF s = <<>> THEN <<>>
    ELSE IF IsSpace(s[Len(s)]) THEN trimEnd(SubSeq(s, 1, Len(s) - 1)) ELSE s

trim(s) == trimEnd(trimStart(s))

substring(s, from, to) == SubSeq(s, from + 1, Min(to, Len(s)))

\* replace(/[^a-z0-9]/g, ''): keep lower-case letters and digits only
IsAlnumLower(c) == IsDigit(c) \/ c \in {"a", "b", "i", "l", "x"}

sanitize(s) == SelectSeq(toLowerCase(s), IsAlnumLower)

\* /^[^\s@]+@[^\s@]+\.[^\s@]+$/
validateEmail(email) ==
    /\ \A i \in 1..Len(email) : ~IsSpace(email[i])
    /\ Cardinality({i \in 1..Len(email) : email[i] = "@"}) = 1
    /\ \E at \in 2..Len(email) :
          /\ email[at] = "@"
          /\ \E dot \in (at + 2)..(Len(email) - 1) : email[dot] = "."

\* /^\+?[1-9]\d{1,14}$/
validatePhoneNumber(phone) ==
    LET digits == IF phone # <<>> /\ Head(phone) = "+" THEN Tail(phone) ELSE phone
    IN /\ Len(digits) >= 2
       /\ Len(digits) <= 15
       /\ IsDigit(digits[1]) /\ digits[1] # "0"
       /\ \A i \in 2..Len(digits) : IsDigit(digits[i])

DigitChar(n) == <<"0", "1", "2", "3", "4", "5", "6", "7", "8", "9">>[n + 1]

\* generateUsername; rnd is Math.floor(Math.random() * 1000)
generateUsername(firstName, lastName, rnd) ==
    sanitize(firstName) \o substring(sanitize(lastName), 0, 10) \o <<DigitChar(rnd)>>

-----------------------------------------------------------------------------
(* The stable maps and the Candid encoding of their values *)

EmptyMap == [k \in {} |-> 0]

\* StableBTreeMap.insert: commits unconditionally, overwriting a prior value
Put(map, key, value) ==
    [k \in DOMAIN map \cup {key} |-> IF k = key THEN value ELSE map[k]]

\* StableBTreeMap(0, text, User)
UserMemoryId == 0

\* both maps opened on the memory id of the User map
SharedMemoryId == UserMemoryId

\* StableBTreeMap(1, text, Transaction)
TransactionMemoryId == 1

\* the entries of a and of b in one map (b's where both have the key)
Merge(a, b) ==
    [k \in DOMAIN a \cup DOMAIN b |-> IF k \in DOMAIN b THEN b[k] ELSE a[k]]

\* what the map opened on memory id holds once users were written through
\* userStorage and txs through transactionStorage: two maps opened on the
\* same memory id are one map
RegionContents(id, users, txs) ==
    IF UserMemoryId = TransactionMemoryId THEN Merge(users, txs)
    ELSE IF id = UserMemoryId THEN users ELSE txs

\* why a nat64 field cannot hold v ("" when it can)
Nat64Fault(v) ==
    IF v < 0 THEN "negative" ELSE IF v > Nat64Max THEN "overflow" ELSE ""

\* the first field of a User record that does not encode as declared
UserFault(u) ==
    IF Nat64Fault(u.balance) # "" THEN <<"User.balance", Nat64Fault(u.balance)>>
    ELSE IF Nat64Fault(u.points) # "" THEN <<"User.points", Nat64Fault(u.points)>>
    ELSE <<>>

\* the first field of a Transaction record that does not encode as declared
TransactionFault(t) ==
    IF Nat64Fault(t.amount) # "" THEN <<"Transaction.amount", Nat64Fault(t.amount)>>
    ELSE IF Nat64Fault(t.points_earned) # ""
         THEN <<"Transaction.points_earned", Nat64Fault(t.points_earned)>>
    ELSE <<>>

(* Results of a call: the new contents of the two maps and what is returned. *)
(* tag is "Ok", "Err" (a Message variant, named in err) or "Trap" (the call  *)
(* threw: fault names the field and the reason, and nothing is committed).   *)

Outcome(users, txs, tag, err, user, tx, num) ==
    [users |-> users, txs |-> txs, tag |-> tag, err |-> err, fault |-> <<>>,
     user |-> user, txs_out |-> tx, num |-> num]

Err(users, txs, kind) == Outcome(users, txs, "Err", kind, <<>>, <<>>, <<>>)

Trap(users, txs, fault) ==
    [Outcome(users, txs, "Trap", "", <<>>, <<>>, <<>>) EXCEPT !.fault = fault]

\* insert the User records of userWrites, in order, then the Transaction tx,
\* and return Ok(tx); an insert whose value does not encode throws, and the
\* trap discards the inserts made before it
RECURSIVE CommitUsers(_, _)
CommitUsers(users, userWrites) ==
    IF userWrites = <<>> THEN users
    ELSE CommitUsers(Put(users, Head(userWrites).id, Head(userWrites)), Tail(userWrites))

FirstFault(userWrites, tx) ==
    LET bad == {i \in 1..Len(userWrites) : UserFault(userWrites[i]) # <<>>}
    IN IF bad # {} THEN UserFault(userWrites[CHOOSE i \in bad : \A j \in bad : i <= j])
       ELSE TransactionFault(tx)

CommitWithTransaction(users, txs, userWrites, tx) ==
    IF FirstFault(userWrites, tx) # <<>>
    THEN Trap(users, txs, FirstFault(userWrites, tx))
    ELSE Outcome(CommitUsers(users, userWrites), Put(txs, tx.id, tx),
                 "Ok", "", <<>>, <<tx>>, <<>>)

-----------------------------------------------------------------------------
(* The update methods, as functions of the stores, the payload, the id that *)
(* uuidv4 returns, and the timestamp.                                       *)

create_user_eval(users, txs, payload, id, rnd, timestamp) ==
    IF trim(payload.first_name) = <<>> \/ trim(payload.last_name) = <<>>
    THEN Err(users, txs, "ValidationError")
    ELSE IF ~validateEmail(payload.email) THEN Err(users, txs, "ValidationError")
    ELSE IF ~validatePhoneNumber(payload.phone_number)
    THEN Err(users, txs, "ValidationError")
    ELSE IF \E k \in DOMAIN users : users[k].email = payload.email
    THEN Err(users, txs, "DuplicateEmail")
    ELSE LET user == [id |-> id,
                      first_name |-> trim(payload.first_name),
                      last_name |-> trim(payload.last_name),
                      username |-> generateUsername(payload.first_name,
                                                    payload.last_name, rnd),
                      email |-> toLowerCase(payload.email),
                      phone_number |-> payload.phone_number,
                      balance |-> 0,
                      points |-> 0,
                      created_at |-> timestamp,
                      updated_at |-> timestamp]
         IN IF UserFault(user) # <<>> THEN Trap(users, txs, UserFault(user))
            ELSE Outcome(Put(users, user.id, user), txs, "Ok", "", <<user>>, <<>>, <<>>)

\* the writes of deposit_funds with the insert of the Transaction left out
DepositWithoutRecord(users, txs, userWrites, tx) ==
    IF FirstFault(userWrites, tx) # <<>>
    THEN Trap(users, txs, FirstFault(userWrites, tx))
    ELSE Outcome(CommitUsers(users, userWrites), txs, "Ok", "", <<>>, <<tx>>, <<>>)

\* userStorage.insert(user.id, user); transactionStorage.insert(transaction.id, transaction)
CommitDeposit(users, txs, userWrites, tx) ==
    CommitWithTransaction(users, txs, userWrites, tx)

\* a deposit record that credits points as a transfer does
DepositTransactionWithPoints(payload, id, timestamp) ==
    [id |-> id,
     from_user_id |-> SYSTEM,
     to_user_id |-> payload.user_id,
     amount |-> payload.amount,
     transaction_type |-> "DEPOSIT",
     status |-> "COMPLETED",
     points_earned |-> payload.amount \div POINTS_CONVERSION_RATE,
     created_at |-> timestamp]

\* a deposit record whose recipient is the record's own id
DepositTransactionToItself(payload, id, timestamp) ==
    [id |-> id,
     from_user_id |-> SYSTEM,
     to_user_id |-> id,
     amount |-> payload.amount,
     transaction_type |-> "DEPOSIT",
     status |-> "COMPLETED",
     points_earned |-> 0,
     created_at |-> timestamp]

DepositTransaction(payload, id, timestamp) ==
    [id |-> id,
     from_user_id |-> SYSTEM,
     to_user_id |-> payload.user_id,
     amount |-> payload.amount,
     transaction_type |-> "DEPOSIT",
     status |-> "COMPLETED",
     points_earned |-> 0,
     created_at |-> timestamp]

\* a deposit that also awards the points of a transfer of that amount
deposit_funds_with_points(users, txs, payload, id, timestamp) ==
    IF payload.amount < MIN_TRANSACTION_AMOUNT THEN Err(users, txs, "ValidationError")
    ELSE IF payload.user_id \notin DOMAIN users THEN Err(users, txs, "NotFound")
    ELSE CommitDeposit(users, txs,
             <<[users[payload.user_id] EXCEPT
                   !.balance = @ + payload.amount,
                   !.points = @ + payload.amount \div POINTS_CONVERSION_RATE,
                   !.updated_at = timestamp]>>,
             DepositTransaction(payload, id, timestamp))

deposit_funds_eval(users, txs, payload, id, timestamp) ==
    IF payload.amount < MIN_TRANSACTION_AMOUNT THEN Err(users, txs, "ValidationError")
    ELSE IF payload.user_id \notin DOMAIN users THEN Err(users, txs, "NotFound")
    ELSE LET user0 == users[payload.user_id]
             transaction == DepositTransaction(payload, id, timestamp)
             user == [user0 EXCEPT !.balance = @ + payload.amount,
                                   !.updated_at = timestamp]
         IN CommitDeposit(users, txs, <<user>>, transaction)

\* no balance check before the debit
NeverInsufficient(fromUser, amount) == FALSE

\* a balance check that also refuses to spend the whole balance
InsufficientAtBalance(fromUser, amount) == fromUser.balance <= amount

\* fromUser.balance < payload.amount
InsufficientFunds(fromUser, amount) == fromUser.balance < amount

PointsEarned(amount) == amount \div POINTS_CONVERSION_RATE

TransferTransaction(payload, id, timestamp) ==
    [id |-> id,
     from_user_id |-> payload.from_user_id,
     to_user_id |-> payload.to_user_id,
     amount |-> payload.amount,
     transaction_type |-> "TRANSFER",
     status |-> "COMPLETED",
     points_earned |-> PointsEarned(payload.amount),
     created_at |-> timestamp]

Debited(fromUser, amount, timestamp) ==
    [fromUser EXCEPT !.balance = @ - amount,
                     !.points = @ + PointsEarned(amount),
                     !.updated_at = timestamp]

\* the recipient's record built afresh from its id, without its username
CreditedAfresh(toUser, amount, timestamp) ==
    [toUser EXCEPT !.balance = @ + amount, !.updated_at = timestamp,
                   !.username = <<>>]

Credited(toUser, amount, timestamp) ==
    [toUser EXCEPT !.balance = @ + amount, !.updated_at = timestamp]

\* the checks of send_transaction, in order: the Message variant returned,
\* "" when all pass
send_transaction_error(users, payload) ==
    IF payload.amount < MIN_TRANSACTION_AMOUNT THEN "ValidationError"
    ELSE IF payload.from_user_id \notin DOMAIN users THEN "NotFound"
    ELSE IF payload.to_user_id \notin DOMAIN users THEN "NotFound"
    ELSE IF InsufficientFunds(users[payload.from_user_id], payload.amount)
    THEN "InsufficientFunds"
    ELSE ""

\* fromUser and toUser as updated in memory, each from its own copy read
\* before any insert, in the order of their inserts
send_transaction_writes(users, payload, timestamp) ==
    <<Debited(users[payload.from_user_id], payload.amount, timestamp),
      Credited(users[payload.to_user_id], payload.amount, timestamp)>>

\* send_transaction with the sender debited and stored before the recipient
\* is looked up
send_transaction_early_debit(users, txs, payload, id, timestamp) ==
    IF payload.amount < MIN_TRANSACTION_AMOUNT THEN Err(users, txs, "ValidationError")
    ELSE IF payload.from_user_id \notin DOMAIN users THEN Err(users, txs, "NotFound")
    ELSE IF InsufficientFunds(users[payload.from_user_id], payload.amount)
    THEN Err(users, txs, "InsufficientFunds")
    ELSE LET fromUser == Debited(users[payload.from_user_id], payload.amount, timestamp)
             debited == Put(users, fromUser.id, fromUser)
         IN IF payload.to_user_id \notin DOMAIN users
            THEN Err(debited, txs, "NotFound")
            ELSE CommitWithTransaction(debited, txs,
                     <<Credited(debited[payload.to_user_id], payload.amount, timestamp)>>,
                     TransferTransaction(payload, id, timestamp))

send_transaction_eval(users, txs, payload, id, timestamp) ==
    IF send_transaction_error(users, payload) # ""
    THEN Err(users, txs, send_transaction_error(users, payload))
    ELSE CommitWithTransaction(users, txs,
                               send_transaction_writes(users, payload, timestamp),
                               TransferTransaction(payload, id, timestamp))

RedemptionTransaction(payload, id, timestamp) ==
    [id |-> id,
     from_user_id |-> payload.user_id,
     to_user_id |-> SYSTEM,
     amount |-> 0,
     transaction_type |-> "POINTS_REDEMPTION",
     status |-> "COMPLETED",
     points_earned |-> 0 - payload.points,
     created_at |-> timestamp]

\* redeem_points with the user looked up before the requested points are checked
redeem_points_lookup_first(users, txs, payload, id, timestamp) ==
    IF payload.user_id \notin DOMAIN users THEN Err(users, txs, "NotFound")
    ELSE IF payload.points = 0 THEN Err(users, txs, "ValidationError")
    ELSE LET user0 == users[payload.user_id]
         IN IF user0.points < payload.points
            THEN Err(users, txs, "InsufficientPoints")
            ELSE CommitWithTransaction(users, txs,
                     <<[user0 EXCEPT !.points = @ - payload.points,
                                     !.updated_at = timestamp]>>,
                     RedemptionTransaction(payload, id, timestamp))

redeem_points_eval(users, txs, payload, id, timestamp) ==
    IF payload.points = 0 THEN Err(users, txs, "ValidationError")
    ELSE IF payload.user_id \notin DOMAIN users THEN Err(users, txs, "NotFound")
    ELSE LET user0 == users[payload.user_id]
         IN IF user0.points < payload.points
            THEN Err(users, txs, "InsufficientPoints")
            ELSE LET transaction == RedemptionTransaction(payload, id, timestamp)
                     user == [user0 EXCEPT !.points = @ - payload.points,
                                           !.updated_at = timestamp]
                 IN CommitWithTransaction(users, txs, <<user>>, transaction)

-----------------------------------------------------------------------------
(* The query methods *)

UserIdAt(i) == "u" \o ToString(i)

TxIdAt(i) == "t" \o ToString(i)

UserIdPool == {UserIdAt(i) : i \in 1..MaxUsers}

TxIdPool == {TxIdAt(i) : i \in 1..MaxTx}

\* StableBTreeMap.values(): the Transactions in the order of their keys
RECURSIVE TxValuesFrom(_, _)
TxValuesFrom(txs, i) ==
    IF i > MaxTx THEN <<>>
    ELSE (IF TxIdAt(i) \in DOMAIN txs THEN <<txs[TxIdAt(i)]>> ELSE <<>>)
         \o TxValuesFrom(txs, i + 1)

TxValues(txs) == TxValuesFrom(txs, 1)

\* the array left in the order values() gave it
Unsorted(seq) == seq

\* Array.prototype.sort with (a, b) => Number(b.created_at - a.created_at):
\* a stable sort, newest first
RECURSIVE SortNewestFirstFrom(_, _)
SortNewestFirstFrom(seq, t) ==
    IF t < 0 THEN <<>>
    ELSE LET At(tx) == tx.created_at = t
         IN SelectSeq(seq, At) \o SortNewestFirstFrom(seq, t - 1)

SortNewestFirst(seq) == SortNewestFirstFrom(seq, MaxTime)

\* Array.prototype.slice(start, end)
slice(seq, start, end) == SubSeq(seq, start + 1, Min(end, Len(seq)))

get_transaction_history_eval(users, txs, user_id, skip, limit) ==
    LET Mine(tx) == tx.from_user_id = user_id \/ tx.to_user_id = user_id
        transactions == slice(SortNewestFirst(SelectSeq(TxValues(txs), Mine)),
                              skip, skip + limit)
    IN IF Len(transactions) = 0 THEN Err(users, txs, "NotFound")
       ELSE Outcome(users, txs, "Ok", "", <<>>, transactions, <<>>)

\* a balance query that reads the point counter
get_user_balance_from_points(users, txs, user_id) ==
    IF user_id \notin DOMAIN users THEN Err(users, txs, "NotFound")
    ELSE Outcome(users, txs, "Ok", "", <<>>, <<>>, <<users[user_id].points>>)

get_user_balance_eval(users, txs, user_id) ==
    IF user_id \notin DOMAIN users THEN Err(users, txs, "NotFound")
    ELSE Outcome(users, txs, "Ok", "", <<>>, <<>>, <<users[user_id].balance>>)

get_user_points_eval(users, txs, user_id) ==
    IF user_id \notin DOMAIN users THEN Err(users, txs, "NotFound")
    ELSE Outcome(users, txs, "Ok", "", <<>>, <<>>, <<users[user_id].points>>)

get_user_eval(users, txs, user_id) ==
    IF user_id \notin DOMAIN users THEN Err(users, txs, "NotFound")
    ELSE Outcome(users, txs, "Ok", "", <<users[user_id]>>, <<>>, <<>>)

-----------------------------------------------------------------------------------------------------------------------------------------------------
(* The calls the model makes *)

ValidUser(email) ==
    [first_name |-> <<"A", "l">>, last_name |-> <<"L", "i">>,
     email |-> email, phone_number |-> <<"+", "1", "2">>]

\* three well-formed registrations, two of them with emails that differ in
\* letter case only, and one malformed registration per validation rule
UserPayloads ==
    {ValidUser(<<"a", "@", "b", ".", "x">>),
     ValidUser(<<"A", "@", "b", ".", "x">>),
     ValidUser(<<"b", "@", "b", ".", "x">>),
     [ValidUser(<<"b", "@", "b", ".", "x">>) EXCEPT !.first_name = <<" ">>],
     ValidUser(<<"a", "b">>),
     [ValidUser(<<"b", "@", "b", ".", "x">>) EXCEPT !.phone_number = <<"0", "1">>]}

\* ids a caller may name: every stored id, and one id that no user has (a
\* lookup of any other text ends the same way)
CallerIds == DOMAIN userStorage \cup {SYSTEM}

Amounts == {0, 25, 30, 100}

PointAmounts == {0, 3}

DepositPayloads == [user_id : CallerIds, amount : Amounts]

TransactionPayloads == [from_user_id : CallerIds, to_user_id : CallerIds, amount : Amounts]

PointsPayloads == [user_id : CallerIds, points : PointAmounts]

HistoryArgs == [user_id : CallerIds, skip : {0, 1}, limit : {1, 2}]

NoId == "none"

\* uuidv4(): an id not in use.  Ids are handed out in the order of the pool;
\* NoId once the model's pool is used up (a call that would then store a
\* record is left out of the model)
\* an id drawn from a source that repeats: the first id, again
ReusedUserId(users) ==
    IF Cardinality(DOMAIN users) < MaxUsers THEN UserIdAt(1) ELSE NoId

NextUserId(users) ==
    IF Cardinality(DOMAIN users) < MaxUsers
    THEN UserIdAt(Cardinality(DOMAIN users) + 1) ELSE NoId

\* an id drawn from a source that repeats: the first id, again
ReusedTxId(txs) ==
    IF Cardinality(DOMAIN txs) < MaxTx THEN TxIdAt(1) ELSE NoId

NextTxId(txs) ==
    IF Cardinality(DOMAIN txs) < MaxTx
    THEN TxIdAt(Cardinality(DOMAIN txs) + 1) ELSE NoId

Call(op, arg, r) ==
    [op |-> op, arg |-> arg, tag |-> r.tag, err |-> r.err, fault |-> r.fault,
     user |-> r.user, txs |-> r.txs_out, num |-> r.num]

\* no call is being answered
Idle == Call("idle", [none |-> TRUE], Err(EmptyMap, EmptyMap, ""))

NoExec == [pc |-> "none"]

\* a message that yields between its inserts
NeverInProgress == FALSE

\* an update message is in execution: the callbacks are synchronous, and no
\* other message is taken up before the one in execution returns or traps
MessageInProgress == exec # NoExec

\* what an update call leaves behind
Update(op, arg, r, id, counted) ==
    /\ last = Idle
    /\ ~MessageInProgress
    /\ id = NoId => r.tag # "Ok"
    /\ userStorage' = RegionContents(UserMemoryId, r.users, r.txs)
    /\ transactionStorage' = RegionContents(TransactionMemoryId, r.users, r.txs)
    /\ last' = Call(op, arg, r)
    /\ okCalls' = IF counted /\ r.tag = "Ok" THEN okCalls + 1 ELSE okCalls
    /\ UNCHANGED <<now, exec>>

\* what a query call leaves behind: its reply only
Query(op, arg, r) ==
    /\ last = Idle
    /\ ~MessageInProgress
    /\ last' = Call(op, arg, r)
    /\ UNCHANGED <<userStorage, transactionStorage, now, okCalls, exec>>

Init ==
    /\ userStorage = EmptyMap
    /\ transactionStorage = EmptyMap
    /\ now = 0
    /\ last = Idle
    /\ okCalls = 0
    /\ exec = NoExec

create_user_of(payloads, rnds) ==
    \E payload \in payloads, rnd \in rnds :
        Update("create_user", payload,
               create_user_eval(userStorage, transactionStorage, payload,
                                NextUserId(userStorage), rnd, now),
               NextUserId(userStorage), FALSE)

create_user_call(rnds) == create_user_of(UserPayloads, rnds)

\* registrations whose username suffix Math.random() draws as 0
create_user == create_user_call({0})

deposit_funds_of(payloads) ==
    \E payload \in payloads :
        Update("deposit_funds", payload,
               deposit_funds_eval(userStorage, transactionStorage, payload,
                                  NextTxId(transactionStorage), now),
               NextTxId(transactionStorage), TRUE)

deposit_funds == deposit_funds_of(DepositPayloads)

send_transaction_of(payloads) ==
    \E payload \in payloads :
        Update("send_transaction", payload,
               send_transaction_eval(userStorage, transactionStorage, payload,
                                     NextTxId(transactionStorage), now),
               NextTxId(transactionStorage), TRUE)

send_transaction == send_transaction_of(TransactionPayloads)

redeem_points ==
    \E payload \in PointsPayloads :
        Update("redeem_points", payload,
               redeem_points_eval(userStorage, transactionStorage, payload,
                                  NextTxId(transactionStorage), now),
               NextTxId(transactionStorage), TRUE)

get_transaction_history ==
    \E arg \in HistoryArgs :
        Query("get_transaction_history", arg,
              get_transaction_history_eval(userStorage, transactionStorage,
                                           arg.user_id, arg.skip, arg.limit))

get_user_balance ==
    \E user_id \in CallerIds :
        Query("get_user_balance", [user_id |-> user_id],
              get_user_balance_eval(userStorage, transactionStorage, user_id))

get_user_points ==
    \E user_id \in CallerIds :
        Query("get_user_points", [user_id |-> user_id],
              get_user_points_eval(userStorage, transactionStorage, user_id))

get_user ==
    \E user_id \in CallerIds :
        Query("get_user", [user_id |-> user_id],
              get_user_eval(userStorage, transactionStorage, user_id))

\* the reply reaches the caller; the canister takes up the next message
Reply ==
    /\ last # Idle
    /\ last' = Idle
    /\ UNCHANGED <<userStorage, transactionStorage, now, okCalls, exec>>

\* time passes between calls
Tick ==
    /\ last = Idle
    /\ now < MaxTime
    /\ now' = now + 1
    /\ UNCHANGED <<userStorage, transactionStorage, last, okCalls, exec>>

\* the calls, all made within one second of the clock
Next ==
    \/ create_user
    \/ deposit_funds
    \/ send_transaction
    \/ redeem_points
    \/ get_transaction_history
    \/ get_user_balance
    \/ get_user_points
    \/ get_user
    \/ Reply

Spec == Init /\ [][Next]_vars

\* the same calls, spread over the seconds of the clock
NextClock == Next \/ Tick

SpecClock == Init /\ [][NextClock]_vars

-----------------------------------------------------------------------------
(* The calls that fill and read the ledger, spread over the seconds of the *)
(* clock: well-formed registrations, deposits and transfers of one amount, *)
(* and the history query.                                                  *)

HistoryUserPayloads ==
    {ValidUser(<<"a", "@", "b", ".", "x">>), ValidUser(<<"b", "@", "b", ".", "x">>)}

HistoryAmounts == {30}

history_create_user == create_user_of(HistoryUserPayloads, {0})

history_deposit_funds ==
    deposit_funds_of([user_id : CallerIds, amount : HistoryAmounts])

history_send_transaction ==
    send_transaction_of([from_user_id : CallerIds, to_user_id : CallerIds,
                         amount : HistoryAmounts])

NextHistory ==
    \/ history_create_user
    \/ history_deposit_funds
    \/ history_send_transaction
    \/ get_transaction_history
    \/ Reply
    \/ Tick

SpecHistory == Init /\ [][NextHistory]_vars

-----------------------------------------------------------------------------
(* Registrations with the username suffix left to Math.random(): each call *)
(* draws its suffix on its own.                                            *)

RandomDraws == {0, 1}

random_create_user == create_user_call(RandomDraws)

NextRegister ==
    \/ random_create_user
    \/ get_user
    \/ Reply
    \/ Tick

SpecRegister == Init /\ [][NextRegister]_vars

-----------------------------------------------------------------------------
(* send_transaction insert by insert.  The stable maps are written in      *)
(* place; a trap restores what they held when the message was taken up.    *)

\* the message is taken up: it is checked, and the records are built in memory
send_begin ==
    /\ last = Idle
    /\ ~MessageInProgress
    /\ \E payload \in TransactionPayloads :
          IF send_transaction_error(userStorage, payload) # ""
          THEN /\ last' = Call("send_transaction", payload,
                               Err(userStorage, transactionStorage,
                                   send_transaction_error(userStorage, payload)))
               /\ UNCHANGED <<userStorage, transactionStorage, now, okCalls, exec>>
          ELSE /\ NextTxId(transactionStorage) # NoId
               /\ exec' = [pc |-> "writing",
                           arg |-> payload,
                           snapshot |-> [users |-> userStorage,
                                         txs |-> transactionStorage],
                           userWrites |-> send_transaction_writes(userStorage, payload, now),
                           tx |-> <<TransferTransaction(payload,
                                        NextTxId(transactionStorage), now)>>,
                           transaction |-> TransferTransaction(payload,
                                               NextTxId(transactionStorage), now)]
               /\ UNCHANGED <<userStorage, transactionStorage, now, okCalls, last>>

\* the insert does not encode: the message traps and its writes are undone
send_trap(fault) ==
    /\ userStorage' = exec.snapshot.users
    /\ transactionStorage' = exec.snapshot.txs
    /\ last' = Call("send_transaction", exec.arg,
                    Trap(exec.snapshot.users, exec.snapshot.txs, fault))
    /\ exec' = NoExec
    /\ UNCHANGED <<now, okCalls>>

\* userStorage.insert(fromUser.id, fromUser), then userStorage.insert(toUser.id, toUser)
send_insert_user ==
    /\ exec # NoExec
    /\ exec.userWrites # <<>>
    /\ LET user == Head(exec.userWrites)
       IN IF UserFault(user) # <<>> THEN send_trap(UserFault(user))
          ELSE /\ userStorage' = RegionContents(UserMemoryId,
                                   Put(userStorage, user.id, user), transactionStorage)
               /\ transactionStorage' = RegionContents(TransactionMemoryId,
                                   Put(userStorage, user.id, user), transactionStorage)
               /\ exec' = [exec EXCEPT !.userWrites = Tail(@)]
               /\ UNCHANGED <<now, okCalls, last>>

\* transactionStorage.insert(transaction.id, transaction)
send_insert_transaction ==
    /\ exec # NoExec
    /\ exec.userWrites = <<>>
    /\ exec.tx # <<>>
    /\ LET transaction == Head(exec.tx)
       IN IF TransactionFault(transaction) # <<>>
          THEN send_trap(TransactionFault(transaction))
          ELSE /\ userStorage' = RegionContents(UserMemoryId, userStorage,
                                   Put(transactionStorage, transaction.id, transaction))
               /\ transactionStorage' = RegionContents(TransactionMemoryId, userStorage,
                                   Put(transactionStorage, transaction.id, transaction))
               /\ exec' = [exec EXCEPT !.tx = <<>>]
               /\ UNCHANGED <<now, okCalls, last>>

\* return Ok(transaction)
send_return ==
    /\ exec # NoExec
    /\ exec.userWrites = <<>>
    /\ exec.tx = <<>>
    /\ last = Idle
    /\ last' = Call("send_transaction", exec.arg,
                    Outcome(userStorage, transactionStorage, "Ok", "",
                            <<>>, <<exec.transaction>>, <<>>))
    /\ okCalls' = okCalls + 1
    /\ exec' = NoExec
    /\ UNCHANGED <<userStorage, transactionStorage, now>>

NextSteps ==
    \/ create_user
    \/ deposit_funds
    \/ redeem_points
    \/ get_transaction_history
    \/ get_user_balance
    \/ get_user_points
    \/ get_user
    \/ Reply
    \/ send_begin
    \/ send_insert_user
    \/ send_insert_transaction
    \/ send_return

SpecSteps == Init /\ [][NextSteps]_vars

-----------------------------------------------------------------------------
(* Vocabulary of the properties.  A call is the step that sets last; the    *)
(* unprimed stores are those before the call, the primed ones those after.  *)

Returned(op, tag) == last.op = op /\ last.tag = tag

Returns(op, tag) == last'.op = op /\ last'.tag = tag

Failed(op, kind) == Returned(op, "Err") /\ last.err = kind

Fails(kind) == last'.tag = "Err" /\ last'.err = kind

MutatingOps == {"create_user", "deposit_funds", "send_transaction", "redeem_points"}

HasTx(type) == \E k \in DOMAIN transactionStorage :
                  transactionStorage[k].transaction_type = type

-----------------------------------------------------------------------------
(* C1: every successful transfer takes amount off the sender's balance,     *)
(* adds amount to the recipient's balance, and keeps the sum of the two     *)
(* balances.                                                                *)
C1_TransferMovesFunds ==
    [][Returns("send_transaction", "Ok") =>
         LET from == last'.arg.from_user_id
             to == last'.arg.to_user_id
             amount == last'.arg.amount
         IN /\ userStorage'[from].balance = userStorage[from].balance - amount
            /\ userStorage'[to].balance = userStorage[to].balance + amount
            /\ userStorage'[from].balance + userStorage'[to].balance
                 = userStorage[from].balance + userStorage[to].balance]_vars

(* C2: a transfer from an existing user to itself, with a positive amount   *)
(* the user can afford, fails with ValidationError and changes no store.    *)
C2_SelfTransferRejected ==
    [][(/\ last'.op = "send_transaction"
        /\ last'.arg.from_user_id = last'.arg.to_user_id
        /\ last'.arg.from_user_id \in DOMAIN userStorage
        /\ last'.arg.amount > 0
        /\ userStorage[last'.arg.from_user_id].balance >= last'.arg.amount)
       => Fails("ValidationError") /\ UNCHANGED stores]_vars

(* C3: when Register, Deposit, Transfer or RedeemPoints returns an error,   *)
(* the Account Store and the Ledger Store are as they were before the call. *)
C3_ErrorsWriteNothing ==
    [][(last'.op \in MutatingOps /\ last'.tag = "Err") => UNCHANGED stores]_vars

C3_Witness ==
    /\ Failed("send_transaction", "InsufficientFunds")
    /\ HasTx("DEPOSIT")

(* C4: every stored User has balance >= 0 and points >= 0, and no call      *)
(* computes a balance or a point counter below zero for a User record.      *)
C4_NonNegative ==
    /\ \A k \in DOMAIN userStorage :
          userStorage[k].balance >= 0 /\ userStorage[k].points >= 0
    /\ ~(last.tag = "Trap" /\ last.fault \in {<<"User.balance", "negative">>,
                                              <<"User.points", "negative">>})

C4_Witness ==
    /\ Returned("send_transaction", "Ok")
    /\ last.arg.from_user_id # last.arg.to_user_id
    /\ userStorage[last.arg.from_user_id].balance = 0
    /\ userStorage[last.arg.from_user_id].points > 0

(* C5: every successful transfer adds amount / 10 (integer division) to the *)
(* sender's points and leaves the recipient's points alone; the stored      *)
(* sender record carries the debited balance and the credited points.       *)
C5_TransferAwardsPoints ==
    [][Returns("send_transaction", "Ok") =>
         LET from == last'.arg.from_user_id
             to == last'.arg.to_user_id
             amount == last'.arg.amount
         IN /\ userStorage'[from].points
                 = userStorage[from].points + amount \div POINTS_CONVERSION_RATE
            /\ userStorage'[from].balance = userStorage[from].balance - amount
            /\ to # from => userStorage'[to].points = userStorage[to].points]_vars

\* the credit of this deposit or transfer does not fit a nat64
CreditOverflows(users, op, arg) ==
    /\ arg.amount >= MIN_TRANSACTION_AMOUNT
    /\ \/ /\ op = "deposit_funds"
          /\ arg.user_id \in DOMAIN users
          /\ users[arg.user_id].balance + arg.amount > Nat64Max
       \/ /\ op = "send_transaction"
          /\ arg.from_user_id \in DOMAIN users
          /\ arg.to_user_id \in DOMAIN users
          /\ arg.from_user_id # arg.to_user_id
          /\ users[arg.from_user_id].balance >= arg.amount
          /\ \/ users[arg.to_user_id].balance + arg.amount > Nat64Max
             \/ users[arg.from_user_id].points + PointsEarned(arg.amount) > Nat64Max

(* C7: a deposit or a transfer whose credit would push a balance or a point *)
(* counter above the largest nat64 fails with SystemError, and no User ever *)
(* holds a value outside the nat64 range.                                   *)
C7_OverflowIsSystemError ==
    [][/\ (/\ last'.op \in {"deposit_funds", "send_transaction"}
           /\ CreditOverflows(userStorage, last'.op, last'.arg))
          => Fails("SystemError")
       /\ \A k \in DOMAIN userStorage' :
             /\ userStorage'[k].balance \in 0..Nat64Max
             /\ userStorage'[k].points \in 0..Nat64Max]_vars

(* C8: no two stored Users have the same email, compared without regard to  *)
(* letter case.                                                             *)
C8_UniqueEmails ==
    \A a, b \in DOMAIN userStorage :
        a # b => toLowerCase(userStorage[a].email) # toLowerCase(userStorage[b].email)

(* C9: a successful deposit adds exactly amount to the user's balance and   *)
(* appends the Transaction (SYSTEM -> user_id, amount, DEPOSIT, no points). *)
C9_DepositCreditsAndRecords ==
    [][Returns("deposit_funds", "Ok") =>
         LET user_id == last'.arg.user_id
             amount == last'.arg.amount
             tx == last'.txs[1]
         IN /\ amount > 0
            /\ user_id \in DOMAIN userStorage
            /\ userStorage'[user_id].balance = userStorage[user_id].balance + amount
            /\ tx.id \notin DOMAIN transactionStorage
            /\ transactionStorage' = Put(transactionStorage, tx.id, tx)
            /\ tx.from_user_id = SYSTEM
            /\ tx.to_user_id = user_id
            /\ tx.amount = amount
            /\ tx.transaction_type = "DEPOSIT"
            /\ tx.points_earned = 0]_vars

C9_Witness ==
    /\ Returned("deposit_funds", "Ok")
    /\ userStorage[last.arg.user_id].balance > last.arg.amount
    /\ last.arg.amount >= POINTS_CONVERSION_RATE

(* C10: the Ledger Store holds as many Transactions as there were           *)
(* successful Deposit, Transfer and RedeemPoints calls.                     *)
C10_OneTransactionPerSuccess ==
    Cardinality(DOMAIN transactionStorage) = okCalls

C10_Witness ==
    /\ okCalls = 2
    /\ HasTx("DEPOSIT")
    /\ HasTx("TRANSFER")
    /\ Cardinality(DOMAIN userStorage) = 2

\* the stores hold some, not all, of the writes of the transfer in execution
PartlyWritten ==
    /\ exec # NoExec
    /\ <<userStorage, transactionStorage>> # <<exec.snapshot.users, exec.snapshot.txs>>
    /\ exec.userWrites # <<>> \/ exec.tx # <<>>

\* what the whole handler makes of the stores the transfer was taken up with
WholeTransfer ==
    send_transaction_eval(exec.snapshot.users, exec.snapshot.txs, exec.arg,
                          exec.transaction.id, exec.transaction.created_at)

(* C6: a transfer is all or nothing for every other call.  No call is      *)
(* answered from stores that hold only some of the transfer's writes; a     *)
(* transfer that traps leaves the stores as they were when it was taken up; *)
(* a transfer that returns leaves them as the whole handler computes them   *)
(* from the stores it was taken up with.                                    *)
C6_TransferAllOrNothing ==
    [][/\ (last = Idle /\ last' # Idle /\ exec' = exec) => ~PartlyWritten
       /\ (exec # NoExec /\ exec' = NoExec) =>
             /\ last'.tag = WholeTransfer.tag
             /\ last'.txs = WholeTransfer.txs_out
             /\ userStorage' = WholeTransfer.users
             /\ transactionStorage' = WholeTransfer.txs
             /\ last'.tag = "Trap" =>
                   /\ userStorage' = exec.snapshot.users
                   /\ transactionStorage' = exec.snapshot.txs]_vars

C6_Witness ==
    /\ exec # NoExec
    /\ Len(exec.userWrites) = 1
    /\ exec.arg.from_user_id # exec.arg.to_user_id
    /\ userStorage[exec.arg.from_user_id].balance
         < exec.snapshot.users[exec.arg.from_user_id].balance
    /\ userStorage[exec.arg.to_user_id] = exec.snapshot.users[exec.arg.to_user_id]
    /\ exec.transaction.id \notin DOMAIN transactionStorage

(* C11: the Ledger Store is append-only.  Every Transaction stored before a *)
(* step is stored after it under the same id with the same record, and a    *)
(* call that returns a Transaction stored it under an id that was free.     *)
C11_LedgerAppendOnly ==
    [][/\ \A k \in DOMAIN transactionStorage :
             /\ k \in DOMAIN transactionStorage'
             /\ transactionStorage'[k] = transactionStorage[k]
       /\ (last'.op \in MutatingOps /\ last'.tag = "Ok" /\ last'.txs # <<>>) =>
             /\ last'.txs[1].id \notin DOMAIN transactionStorage
             /\ transactionStorage'
                   = Put(transactionStorage, last'.txs[1].id, last'.txs[1])]_vars

C11_Witness ==
    /\ Returned("send_transaction", "Ok")
    /\ Cardinality(DOMAIN transactionStorage) = 2
    /\ HasTx("DEPOSIT")

(* C12: on an existing user, RedeemPoints of more than the held points      *)
(* fails with InsufficientPoints and leaves the user as it was; RedeemPoints *)
(* of exactly the held points (more than 0) succeeds and leaves 0 points;   *)
(* every success takes exactly the requested points off the user's points.  *)
C12_RedeemWithinHeldPoints ==
    [][(last'.op = "redeem_points" /\ last'.arg.user_id \in DOMAIN userStorage) =>
         LET user_id == last'.arg.user_id
             points == last'.arg.points
             held == userStorage[user_id].points
         IN /\ points > held =>
                  Fails("InsufficientPoints") /\ userStorage'[user_id] = userStorage[user_id]
            /\ (points = held /\ points > 0) =>
                  last'.tag = "Ok" /\ userStorage'[user_id].points = 0
            /\ last'.tag = "Ok" => userStorage'[user_id].points = held - points]_vars

(* C13: RedeemPoints with points = 0 fails with ValidationError, whether    *)
(* the user exists or not, and leaves both stores as they were.             *)
C13_RedeemZeroRejected ==
    [][(last'.op = "redeem_points" /\ last'.arg.points = 0) =>
         Fails("ValidationError") /\ UNCHANGED stores]_vars

C13_Witness ==
    /\ Failed("redeem_points", "ValidationError")
    /\ last.arg.points = 0
    /\ last.arg.user_id \notin DOMAIN userStorage
    /\ userStorage # EmptyMap

(* C14: RedeemPoints with points > 0 on a user holding that many points     *)
(* returns the stored Transaction user_id -> SYSTEM of type                 *)
(* POINTS_REDEMPTION with amount 0 and points_earned = -points; the         *)
(* points_earned field holds that value (encoding it never fails).          *)
C14_RedemptionRecord ==
    last.op = "redeem_points" =>
        /\ ~(last.tag = "Trap" /\ last.fault # <<>>
                               /\ last.fault[1] = "Transaction.points_earned")
        /\ last.tag = "Ok" =>
              /\ last.txs[1].transaction_type = "POINTS_REDEMPTION"
              /\ last.txs[1].amount = 0
              /\ last.txs[1].from_user_id = last.arg.user_id
              /\ last.txs[1].to_user_id = SYSTEM
              /\ last.txs[1].points_earned = 0 - last.arg.points
              /\ last.txs[1].id \in DOMAIN transactionStorage
              /\ transactionStorage[last.txs[1].id] = last.txs[1]

(* C15: a Transfer of amount 0 fails with ValidationError; between two     *)
(* distinct existing users, a Transfer of more than the sender's balance   *)
(* fails with InsufficientFunds; a Transfer of a positive amount from an   *)
(* existing sender to a recipient that does not exist fails with NotFound; *)
(* between two distinct existing users, a Transfer of exactly the sender's *)
(* positive balance, whose credit fits the recipient, succeeds and leaves  *)
(* the sender at 0.                                                        *)
C15_TransferEdgeCases ==
    [][last'.op = "send_transaction" =>
         LET from == last'.arg.from_user_id
             to == last'.arg.to_user_id
             amount == last'.arg.amount
             known == DOMAIN userStorage
         IN /\ amount = 0 => Fails("ValidationError")
            /\ (/\ from \in known /\ to \in known /\ from # to
                /\ amount > userStorage[from].balance) => Fails("InsufficientFunds")
            /\ (amount > 0 /\ from \in known /\ to \notin known) => Fails("NotFound")
            /\ (/\ amount > 0 /\ from \in known /\ to \in known /\ from # to
                /\ amount = userStorage[from].balance
                /\ ~CreditOverflows(userStorage, "send_transaction", last'.arg)) =>
                  last'.tag = "Ok" /\ userStorage'[from].balance = 0]_vars

C15_Witness ==
    /\ Returned("send_transaction", "Ok")
    /\ last.arg.from_user_id # last.arg.to_user_id
    /\ userStorage[last.arg.from_user_id].balance = 0
    /\ userStorage[last.arg.to_user_id].balance = last.arg.amount
    /\ last.txs[1].amount = last.arg.amount

\* the stored Transactions that name user_id as their sender or recipient
Involving(user_id) ==
    {transactionStorage[k] : k \in {j \in DOMAIN transactionStorage :
        \/ transactionStorage[j].from_user_id = user_id
        \/ transactionStorage[j].to_user_id = user_id}}

\* tx can stand at place rank of the Transactions of M listed newest first
RankedNewestFirst(M, tx, rank) ==
    /\ Cardinality({m \in M : m.created_at > tx.created_at}) <= rank - 1
    /\ Cardinality({m \in M : m.created_at >= tx.created_at}) >= rank

(* C16: a successful GetTransactionHistory(user_id, skip, limit) returns,   *)
(* without repetition, stored Transactions that name user_id as sender or   *)
(* recipient, newest first, and they are the entries skip + 1 to            *)
(* skip + limit (or to the last) of all such Transactions listed newest     *)
(* first.                                                                   *)
C16_HistoryWindow ==
    Returned("get_transaction_history", "Ok") =>
        LET r == last.txs
            M == Involving(last.arg.user_id)
            skip == last.arg.skip
            limit == last.arg.limit
        IN /\ \A i \in 1..Len(r) : r[i] \in M
           /\ \A i, j \in 1..Len(r) :
                 i < j => r[i] # r[j] /\ r[i].created_at >= r[j].created_at
           /\ Len(r) = Min(limit, Cardinality(M) - skip)
           /\ \A i \in 1..Len(r) : RankedNewestFirst(M, r[i], skip + i)

C16_Witness ==
    /\ Returned("get_transaction_history", "Ok")
    /\ Len(last.txs) = 2
    /\ last.txs[1].created_at > last.txs[2].created_at
    /\ last.txs[1].transaction_type = "TRANSFER"
    /\ last.arg.user_id = last.txs[1].to_user_id

(* C17: GetTransactionHistory fails with NotFound exactly when no stored    *)
(* Transaction names user_id; when some do and skip is at least their       *)
(* number, it returns the empty sequence.                                   *)
C17_NotFoundBeforePagination ==
    last.op = "get_transaction_history" =>
        LET M == Involving(last.arg.user_id)
        IN /\ (last.tag = "Err" /\ last.err = "NotFound") <=> M = {}
           /\ (M # {} /\ last.arg.skip >= Cardinality(M)) =>
                 last.tag = "Ok" /\ last.txs = <<>>

(* C18: a successful Register stores the returned User, with balance 0 and  *)
(* points 0, under an id no User had; every User stored before is unchanged *)
(* and the Ledger Store is unchanged.                                       *)
C18_RegisterAddsOneUser ==
    [][Returns("create_user", "Ok") =>
         LET user == last'.user[1]
         IN /\ user.id \notin DOMAIN userStorage
            /\ DOMAIN userStorage' = DOMAIN userStorage \cup {user.id}
            /\ userStorage'[user.id] = user
            /\ user.balance = 0
            /\ user.points = 0
            /\ \A k \in DOMAIN userStorage : userStorage'[k] = userStorage[k]
            /\ transactionStorage' = transactionStorage]_vars

C18_Witness ==
    /\ Returned("create_user", "Ok")
    /\ Cardinality(DOMAIN userStorage) = 2
    /\ transactionStorage # EmptyMap
    /\ \E k \in DOMAIN userStorage : userStorage[k].balance > 0

(* C19: no two stored Users have the same username.                         *)
C19_UniqueUsernames ==
    \A a, b \in DOMAIN userStorage :
        a # b => userStorage[a].username # userStorage[b].username

\* the users and the ledger of the scenario: A and B are the first and the
\* second registered user, registered as a@b.x and b@b.x, holding the given
\* balances and points, with count Transactions stored
ScenarioState(ids, balanceA, pointsA, balanceB, count) ==
    /\ DOMAIN userStorage = ids
    /\ Cardinality(DOMAIN transactionStorage) = count
    /\ UserIdAt(1) \in ids =>
          /\ userStorage[UserIdAt(1)].email = <<"a", "@", "b", ".", "x">>
          /\ userStorage[UserIdAt(1)].balance = balanceA
          /\ userStorage[UserIdAt(1)].points = pointsA
    /\ UserIdAt(2) \in ids =>
          /\ userStorage[UserIdAt(2)].email = <<"b", "@", "b", ".", "x">>
          /\ userStorage[UserIdAt(2)].balance = balanceB
          /\ userStorage[UserIdAt(2)].points = 0

AfterRegisterA == ScenarioState({UserIdAt(1)}, 0, 0, 0, 0)

AfterDeposit == ScenarioState({UserIdAt(1)}, 100, 0, 0, 1)

AfterRegisterB == ScenarioState({UserIdAt(1), UserIdAt(2)}, 100, 0, 0, 1)

AfterTransfer ==
    /\ ScenarioState({UserIdAt(1), UserIdAt(2)}, 70, 3, 30, 2)
    /\ \E k \in DOMAIN transactionStorage :
          /\ transactionStorage[k].transaction_type = "TRANSFER"
          /\ transactionStorage[k].amount = 30
          /\ transactionStorage[k].points_earned = 3
    /\ Cardinality({k \in DOMAIN transactionStorage :
                       transactionStorage[k].transaction_type = "TRANSFER"}) = 1

\* the first four steps of the scenario: each call, made in the state the
\* step before it left, returns Ok and leaves the state of its step
ScenarioUpToTransfer ==
    /\ (/\ ScenarioState({}, 0, 0, 0, 0)
        /\ last'.op = "create_user"
        /\ last'.arg = ValidUser(<<"a", "@", "b", ".", "x">>))
          => last'.tag = "Ok" /\ AfterRegisterA'
    /\ (/\ AfterRegisterA
        /\ last'.op = "deposit_funds"
        /\ last'.arg = [user_id |-> UserIdAt(1), amount |-> 100])
          => last'.tag = "Ok" /\ AfterDeposit'
    /\ (/\ AfterDeposit
        /\ last'.op = "create_user"
        /\ last'.arg = ValidUser(<<"b", "@", "b", ".", "x">>))
          => last'.tag = "Ok" /\ AfterRegisterB'
    /\ (/\ AfterRegisterB
        /\ last'.op = "send_transaction"
        /\ last'.arg = [from_user_id |-> UserIdAt(1), to_user_id |-> UserIdAt(2),
                        amount |-> 30])
          => last'.tag = "Ok" /\ AfterTransfer'

(* C20: register A, deposit 100 to A, register B, transfer 30 from A to B,  *)
(* redeem 3 points from A: every call returns Ok; after the transfer A has  *)
(* balance 70 and 3 points, B has balance 30, and one TRANSFER with amount  *)
(* 30 and points_earned 3 is stored; after the redemption A has 0 points.   *)
C20_EndToEnd ==
    [][/\ ScenarioUpToTransfer
       /\ (/\ AfterTransfer
           /\ last'.op = "redeem_points"
           /\ last'.arg = [user_id |-> UserIdAt(1), points |-> 3])
             => last'.tag = "Ok" /\ userStorage'[UserIdAt(1)].points = 0]_vars

\* user with the fields a balance- or point-affecting call may write set
\* to those of other
WithAccountFieldsOf(user, other) ==
    [user EXCEPT !.balance = other.balance,
                 !.points = other.points,
                 !.updated_at = other.updated_at]

(* C21: a User stored under an id stays stored under it, with the same id,  *)
(* username and email, in every later state; Deposit, Transfer and          *)
(* RedeemPoints change nothing of a User but balance, points and            *)
(* updated_at.                                                              *)
C21_UsersKeepIdentity ==
    [][\A k \in DOMAIN userStorage :
          /\ k \in DOMAIN userStorage'
          /\ userStorage'[k].id = userStorage[k].id
          /\ userStorage'[k].username = userStorage[k].username
          /\ userStorage'[k].email = userStorage[k].email
          /\ last'.op \in {"deposit_funds", "send_transaction", "redeem_points"} =>
                WithAccountFieldsOf(userStorage'[k], userStorage[k]) = userStorage[k]]_vars

C21_Witness ==
    /\ Returned("send_transaction", "Ok")
    /\ last.arg.from_user_id # last.arg.to_user_id
    /\ userStorage[last.arg.from_user_id].balance > 0
    /\ userStorage[last.arg.from_user_id].points > 0
    /\ userStorage[last.arg.to_user_id].username # <<>>

(* C22: GetBalance, GetPoints and GetTransactionHistory leave the Account   *)
(* Store and the Ledger Store as they were; GetBalance and GetPoints return *)
(* the stored balance and the stored points of a user that exists, and      *)
(* fail with NotFound for one that does not.                                *)
C22_QueriesReadOnly ==
    [][/\ last'.op \in {"get_user_balance", "get_user_points",
                        "get_transaction_history"} => UNCHANGED stores
       /\ last'.op \in {"get_user_balance", "get_user_points"} =>
             IF last'.arg.user_id \in DOMAIN userStorage
             THEN /\ last'.tag = "Ok"
                  /\ last'.num = <<IF last'.op = "get_user_balance"
                                    THEN userStorage[last'.arg.user_id].balance
                                    ELSE userStorage[last'.arg.user_id].points>>
             ELSE Fails("NotFound")]_vars

C22_Witness ==
    /\ Returned("get_user_balance", "Ok")
    /\ last.num = <<70>>
    /\ userStorage[last.arg.user_id].points = 3

(* C23: the Account Store and the Ledger Store are independent.  A call     *)
(* that writes a User only (Register) leaves the Ledger Store as it was; a  *)
(* call that writes a Transaction adds it to the Ledger Store alone: the    *)
(* Account Store keeps its keys, each still holding the User of that id,    *)
(* and no key of one store is ever a key of the other.                      *)
C23_RegionsIndependent ==
    [][/\ last'.op = "create_user" => transactionStorage' = transactionStorage
       /\ (last'.op \in {"deposit_funds", "send_transaction", "redeem_points"}
           /\ last'.tag = "Ok") =>
             /\ DOMAIN userStorage' = DOMAIN userStorage
             /\ last'.txs[1].id \notin DOMAIN userStorage'
             /\ \A k \in DOMAIN userStorage' : userStorage'[k].id = userStorage[k].id
             /\ DOMAIN transactionStorage'
                   = DOMAIN transactionStorage \cup {last'.txs[1].id}
       /\ DOMAIN userStorage' \cap DOMAIN transactionStorage' = {}]_vars

C23_Witness ==
    /\ Returned("deposit_funds", "Ok")
    /\ Cardinality(DOMAIN userStorage) = 2
    /\ Cardinality(DOMAIN transactionStorage) = 2
    /\ DOMAIN userStorage \cap DOMAIN transactionStorage = {}

\* the sum of f[k] over the keys k of S
RECURSIVE SumOf(_, _)
SumOf(f, S) ==
    IF S = {} THEN 0
    ELSE LET k == CHOOSE x \in S : TRUE
         IN f[k] + SumOf(f, S \ {k})

\* the ids of the stored Transactions of the given type sent by from
\* (by anyone when from is "")
TxIdsFrom(type, from) ==
    {k \in DOMAIN transactionStorage :
        /\ transactionStorage[k].transaction_type = type
        /\ from # "" => transactionStorage[k].from_user_id = from}

TxIdsTo(to) ==
    {k \in DOMAIN transactionStorage : transactionStorage[k].to_user_id = to}

TxAmounts == [k \in DOMAIN transactionStorage |-> transactionStorage[k].amount]

TxPoints == [k \in DOMAIN transactionStorage |-> transactionStorage[k].points_earned]

TotalBalance ==
    SumOf([k \in DOMAIN userStorage |-> userStorage[k].balance], DOMAIN userStorage)

(* C24: in every reachable state the sum of all Users' balances equals the  *)
(* sum of the amounts of the successful Deposits (the stored DEPOSIT        *)
(* Transactions), transfers from a user to itself included.                 *)
C24_MoneyConserved ==
    TotalBalance = SumOf(TxAmounts, TxIdsFrom("DEPOSIT", ""))

(* C25: in every reachable state each User's balance is the amounts of the  *)
(* stored Transactions to that user minus the amounts of the stored         *)
(* TRANSFERs from that user, and each User's points are the points_earned   *)
(* of the TRANSFERs the user sent minus the points debited by the user's    *)
(* POINTS_REDEMPTIONs.                                                      *)
C25_LedgerReconciles ==
    \A u \in DOMAIN userStorage :
        /\ userStorage[u].balance
              = SumOf(TxAmounts, TxIdsTo(u)) - SumOf(TxAmounts, TxIdsFrom("TRANSFER", u))
        /\ userStorage[u].points
              = SumOf(TxPoints, TxIdsFrom("TRANSFER", u))
                  + SumOf(TxPoints, TxIdsFrom("POINTS_REDEMPTION", u))

(* C26: a successful Deposit changes no User but its target and no User's   *)
(* points; a successful RedeemPoints changes no User but its target and no  *)
(* User's balance; a successful Transfer changes no User but its sender and *)
(* its recipient.                                                           *)
C26_OnlyNamedAccounts ==
    [][/\ Returns("deposit_funds", "Ok") =>
             \A k \in DOMAIN userStorage :
                 /\ k # last'.arg.user_id => userStorage'[k] = userStorage[k]
                 /\ userStorage'[k].points = userStorage[k].points
       /\ Returns("redeem_points", "Ok") =>
             \A k \in DOMAIN userStorage :
                 /\ k # last'.arg.user_id => userStorage'[k] = userStorage[k]
                 /\ userStorage'[k].balance = userStorage[k].balance
       /\ Returns("send_transaction", "Ok") =>
             \A k \in DOMAIN userStorage \ {last'.arg.from_user_id, last'.arg.to_user_id} :
                 userStorage'[k] = userStorage[k]]_vars

C26_Witness ==
    /\ Returned("deposit_funds", "Ok")
    /\ last.arg.amount >= POINTS_CONVERSION_RATE
    /\ \E k \in DOMAIN userStorage \ {last.arg.user_id} : userStorage[k].balance > 0

(* C27: in every reachable state every User is stored under the key equal   *)
(* to its id field, and the from_user_id and the to_user_id of every stored *)
(* Transaction are each SYSTEM or the id of a stored User.                  *)
C27_ReferentiallyConsistent ==
    /\ \A k \in DOMAIN userStorage : userStorage[k].id = k
    /\ \A t \in DOMAIN transactionStorage :
          /\ transactionStorage[t].from_user_id \in DOMAIN userStorage \cup {SYSTEM}
          /\ transactionStorage[t].to_user_id \in DOMAIN userStorage \cup {SYSTEM}

C27_Witness ==
    /\ \E t \in DOMAIN transactionStorage :
          /\ transactionStorage[t].from_user_id \in DOMAIN userStorage
          /\ transactionStorage[t].to_user_id \in DOMAIN userStorage
          /\ transactionStorage[t].from_user_id # transactionStorage[t].to_user_id
    /\ \E t \in DOMAIN transactionStorage : transactionStorage[t].from_user_id = SYSTEM

====
